---- MODULE Spec2Model ----
(***************************************************************************)
(* Model of src/main.py: one refresh() cycle of the e-ink dashboard.       *)
(*                                                                         *)
(* The coroutine refresh() -> _refresh_internal() -> create_screenshot()   *)
(* runs on a single-threaded event loop.  Each action below is one step of *)
(* that task between two suspension points (awaits): the action named      *)
(* XDone(o) resumes the task with outcome o of the awaited operation X and *)
(* runs the code up to the next await, exception handlers included.        *)
(* The overall deadline of refresh() (asyncio.wait_for) can expire while   *)
(* the task is suspended; CancelledError is then thrown into the task at   *)
(* that await.  CancelledError derives from BaseException (Python >= 3.8), *)
(* so no "except Exception" clause of the program catches it.              *)
(***************************************************************************)
EXTENDS Integers, Sequences, FiniteSets, TLC

\* Number of pixels of the (already panel-sized) capture kept in the model.
NumPixels == 1

\* Channel values around the thresholds 230 (red) and 135 (green, blue).
RedLevels == {0, 229, 230, 231, 255}
GreenBlueLevels == {0, 135, 136, 255}
Pixels == RedLevels \X GreenBlueLevels \X GreenBlueLevels
Images == [1..NumPixels -> Pixels]

\* What the single HTTP GET of the availability probe can end with: a
\* response with a status code, its 5 s timeout, or a network error.
Responses == {"200", "404", "503", "timeout", "error"}

VARIABLES
    pc,             \* await at which the task is suspended, "start" or "done"
    browser,        \* the local variable browser of create_screenshot is set
    proc,           \* the chromium process: "none", "running", "exited"
    closeCalls,     \* number of browser.close() requests
    closeCompleted, \* some browser.close() ran to completion
    killCalls,      \* number of browser.process.kill() invocations
    pending,        \* exception held by the outer handler (line 157) for re-raise
    failedStep,     \* first fatal step that failed, or "none"
    settleOutcome,  \* outcome of the settle wait, or "none"
    csResult,       \* how create_screenshot ended
    result,         \* how refresh() ended
    log,            \* calls made so far, in program order
    tmpFile,        \* the NamedTemporaryFile exists
    image,          \* pixels of the capture, <<>> before capture
    classified,     \* output of remove_aliasing_artefacts, <<>> before
    displayArgs,    \* argument pairs of the epd.display calls
    args_reset,     \* main() was given --reset
    is_portrait,    \* global config, line 28
    is_topdown,     \* global config, line 29
    probeResponse,  \* how the GET of the probe ended, or "none"
    available       \* what check_server_availability returned, or "none"

vars == <<pc, browser, proc, closeCalls, closeCompleted, killCalls, pending,
          failedStep, settleOutcome, csResult, result, log, tmpFile, image,
          classified, displayArgs, args_reset, is_portrait, is_topdown,
          probeResponse, available>>

config == <<args_reset, is_portrait, is_topdown>>
probing == <<probeResponse, available>>
session == <<browser, proc, closeCalls, closeCompleted, killCalls>>
pictures == <<image, classified, displayArgs>>

CloseOutcome == {"ok", "timeout", "error"}
KillOutcome == {"ok", "error"}
AwaitPoints == {"probe", "launch", "newPage", "setViewport", "goto",
                "navClose", "settle", "screenshot", "close", "exClose"}
CloseAwaits == {"navClose", "close", "exClose"}

\* Everything but the orientation flags: main() is about to run.
InitCycle ==
    /\ pc = "main"
    /\ args_reset \in BOOLEAN
    /\ probeResponse = "none"
    /\ available = "none"
    /\ browser = FALSE
    /\ proc = "none"
    /\ closeCalls = 0
    /\ closeCompleted = FALSE
    /\ killCalls = 0
    /\ pending = "none"
    /\ failedStep = "none"
    /\ settleOutcome = "none"
    /\ csResult = "none"
    /\ result = "none"
    /\ log = <<>>
    /\ tmpFile = FALSE
    /\ image = <<>>
    /\ classified = <<>>
    /\ displayArgs = <<>>

\* The configuration of lines 28-29.
Init ==
    /\ InitCycle
    /\ is_portrait = FALSE
    /\ is_topdown = FALSE

\* The same program with the two orientation flags set either way.
InitAnyOrientation ==
    /\ InitCycle
    /\ is_portrait \in BOOLEAN
    /\ is_topdown \in BOOLEAN

(***************************************************************************)
(* Colour classifier, inversion and plane splitting (pure functions).      *)
(***************************************************************************)
\* Variant of red: a darker red is written for the red mask.
red_Dark == <<200, 0, 0>>

red == <<255, 0, 0>>
black == <<0, 0, 0>>
white == <<255, 255, 255>>

\* numpy.bitwise_and(x1, x2, out): the third positional argument is the
\* output array; the result is x1 & x2 and the contents of out are not read.
np_bitwise_and(x1, x2, out) == x1 /\ x2

black_mask(p) == np_bitwise_and(p[1] <= 230, p[2] <= 135, p[3] <= 135)
red_mask(p) == np_bitwise_and(p[1] >= 230, p[2] <= 135, p[3] <= 135)
white_mask(p) == ~(red_mask(p) \/ black_mask(p))

\* The three masked assignments of lines 182-184, in program order.
remove_aliasing_artefacts(p) ==
    LET d1 == IF black_mask(p) THEN black ELSE p
        d2 == IF red_mask(p) THEN red ELSE d1
        d3 == IF white_mask(p) THEN white ELSE d2
    IN d3

\* PIL.ImageOps.invert on an RGB pixel.
invert(p) == <<255 - p[1], 255 - p[2], 255 - p[3]>>

\* The label a classified pixel carries.
Label(c) ==
    IF c = black THEN "BLACK" ELSE IF c = red THEN "RED"
    ELSE IF c = white THEN "WHITE" ELSE "OTHER"

\* Lines 227-244: planes start all 1 (255 in mode '1'); a masked cell is set to 0.
split_black(d) == [i \in DOMAIN d |-> IF d[i] = <<0, 0, 0>> THEN 0 ELSE 1]
\* Variant of split_red: the red plane takes every pixel without green and
\* blue, whatever its red channel.
split_red_NoGreenBlue(d) ==
    [i \in DOMAIN d |-> IF d[i][2] = 0 /\ d[i][3] = 0 THEN 0 ELSE 1]

split_red(d) == [i \in DOMAIN d |-> IF d[i] = <<255, 0, 0>> THEN 0 ELSE 1]

\* image.rotate(180) of the one-row image: the row reversed.
rotate180(d) == [i \in DOMAIN d |-> d[Len(d) + 1 - i]]

\* image.rotate(90) of the one-row image, canvas size kept (no expand): a
\* square (single pixel) image is transposed; otherwise the row is turned
\* about its centre, the one cell the turned column still covers takes the
\* centre pixel and every other cell is filled with (0,0,0).
rotate90(d) ==
    IF Len(d) = 1 THEN d
    ELSE [i \in DOMAIN d |->
             IF i = (Len(d) + 1) \div 2 THEN d[(Len(d) \div 2) + 1]
             ELSE <<0, 0, 0>>]

\* Lines 216-224: what the plane splitter is given for the classified image c.
Oriented(c) ==
    LET inv == [i \in DOMAIN c |-> invert(c[i])]
        por == IF is_portrait THEN rotate90(inv) ELSE inv
    IN IF is_topdown THEN rotate180(por) ELSE por

\* Variant of TailEvents: the panel is put to sleep inside the with-block,
\* before the planes are sent.
TailEvents_SleepFirst ==
    <<"Image.open", "remove_aliasing_artefacts", "invert", "split",
      "epd.sleep", "epd.display", "unlink">>

\* Calls of the synchronous tail of _refresh_internal (lines 206-250), in order.
TailEvents ==
    <<"Image.open", "remove_aliasing_artefacts", "invert", "split",
      "epd.display", "unlink", "epd.sleep">>

(***************************************************************************)
(* Teardown.                                                               *)
(***************************************************************************)
\* Variant of TeardownKills: the handlers catch asyncio.TimeoutError only.
TeardownKills_TimeoutOnly(o) == o = "timeout"

\* Lines 117-123 and 160-166: except (asyncio.TimeoutError, Exception) -> kill.
TeardownKills(o) == o \in {"timeout", "error"}

\* Lines 146-155: only asyncio.TimeoutError leads to kill; any other
\* exception of close() is logged.
CloseKills(o) == o = "timeout"

ProcAfter(o, k, kills) ==
    IF o = "ok" \/ (kills /\ k = "ok") THEN "exited" ELSE proc

\* The outer handler (lines 157-167) is entered with exception e:
\* with a browser it requests close and suspends, without one it re-raises.
\* Leaving _refresh_internal by an exception closes the temporary file.
EnterOuterHandler(e) ==
    IF browser'
    THEN /\ pending' = e
         /\ closeCalls' = closeCalls + 1
         /\ log' = Append(log, "close")
         /\ pc' = "exClose"
         /\ UNCHANGED <<csResult, result, tmpFile>>
    ELSE /\ pending' = "none"
         /\ closeCalls' = closeCalls
         /\ log' = Append(log, "unlink")
         /\ csResult' = e
         /\ result' = e
         /\ tmpFile' = FALSE
         /\ pc' = "done"

(***************************************************************************)
(* Steps of the task.                                                      *)
(***************************************************************************)
\* Lines 254-274: main() runs refresh() unless --reset was given; its finally
\* clause only logs (the call of reset_screen is commented out, line 274), so
\* with --reset main returns without touching the panel, and after a refresh
\* it has nothing left to do.
Main ==
    /\ pc = "main"
    /\ pc' = IF args_reset THEN "exit" ELSE "start"
    /\ UNCHANGED <<config, probing, session, pending, failedStep,
                   settleOutcome, csResult, result, log, tmpFile, pictures>>

\* Lines 198-205, 57-61: init the panel, create the file, start the probe.
Start ==
    /\ pc = "start"
    /\ pc' = "probe"
    /\ tmpFile' = TRUE
    /\ log' = log \o <<"epd.init", "probe">>
    /\ UNCHANGED <<config, probing, session, pending, failedStep, settleOutcome, csResult,
                   result, pictures>>

\* Variant of check_server_availability: only client errors are caught, the
\* timeout of the request escapes the function.
check_server_availability_Narrow(r) ==
    IF r = "timeout" THEN "raise"
    ELSE IF r = "error" THEN "False"
    ELSE IF r = "200" THEN "True" ELSE "False"

\* Lines 42-49: the value check_server_availability returns when its GET
\* ended with r; every exception of the request is caught and reported False.
check_server_availability(r) ==
    IF r \in {"timeout", "error"} THEN "False"
    ELSE IF r = "200" THEN "True" ELSE "False"

\* Variant of ProbeDone: the raise of line 62 is missing, the launch starts
\* whatever the probe answered.
ProbeDone_NoRaise(r) ==
    /\ pc = "probe"
    /\ probeResponse' = r
    /\ available' = check_server_availability(r)
    /\ pc' = "launch"
    /\ log' = Append(log, "launch")
    /\ failedStep' = IF available' = "True" THEN failedStep ELSE "probe"
    /\ UNCHANGED <<config, session, pending, settleOutcome, csResult, result,
                   tmpFile, pictures>>

\* Lines 42-49, 61-69: the GET of the probe ended with r.
ProbeDone(r) ==
    /\ pc = "probe"
    /\ probeResponse' = r
    /\ available' = check_server_availability(r)
    /\ IF available' = "True"
       THEN /\ pc' = "launch"
            /\ log' = Append(log, "launch")
            /\ UNCHANGED <<failedStep, csResult, result, tmpFile>>
       ELSE /\ pc' = "done"
            /\ failedStep' = "probe"
            /\ csResult' = "ServerUnavailable"
            /\ result' = "ServerUnavailable"
            /\ log' = Append(log, "unlink")
            /\ tmpFile' = FALSE
    /\ UNCHANGED <<config, session, pending, settleOutcome, pictures>>

\* Lines 69-98.
LaunchDone(o) ==
    /\ pc = "launch"
    /\ IF o = "ok"
       THEN /\ browser' = TRUE
            /\ proc' = "running"
            /\ pc' = "newPage"
            /\ log' = Append(log, "newPage")
            /\ UNCHANGED <<closeCalls, pending, failedStep, csResult, result,
                           tmpFile>>
       ELSE /\ browser' = FALSE
            /\ proc' = "none"
            /\ failedStep' = "launch"
            /\ EnterOuterHandler("LaunchError")
    /\ UNCHANGED <<config, probing, closeCompleted, killCalls, settleOutcome, pictures>>

\* Lines 98-102.
NewPageDone(o) ==
    /\ pc = "newPage"
    /\ browser' = browser
    /\ IF o = "ok"
       THEN /\ pc' = "setViewport"
            /\ log' = Append(log, "setViewport")
            /\ UNCHANGED <<closeCalls, pending, failedStep, csResult, result,
                           tmpFile>>
       ELSE /\ failedStep' = "newPage"
            /\ EnterOuterHandler("PageError")
    /\ UNCHANGED <<config, probing, proc, closeCompleted, killCalls, settleOutcome, pictures>>

\* Lines 102-112.
SetViewportDone(o) ==
    /\ pc = "setViewport"
    /\ browser' = browser
    /\ IF o = "ok"
       THEN /\ pc' = "goto"
            /\ log' = Append(log, "goto")
            /\ UNCHANGED <<closeCalls, pending, failedStep, csResult, result,
                           tmpFile>>
       ELSE /\ failedStep' = "setViewport"
            /\ EnterOuterHandler("PageError")
    /\ UNCHANGED <<config, probing, proc, closeCompleted, killCalls, settleOutcome, pictures>>

\* Lines 111-118, 127-129: navigation ended; on failure the inner handler
\* requests a graceful close.
GotoDone(o) ==
    /\ pc = "goto"
    /\ IF o = "ok"
       THEN /\ pc' = "settle"
            /\ log' = Append(log, "settle")
            /\ UNCHANGED <<closeCalls, failedStep>>
       ELSE /\ pc' = "navClose"
            /\ failedStep' = "goto"
            /\ closeCalls' = closeCalls + 1
            /\ log' = Append(log, "close")
    /\ UNCHANGED <<config, probing, browser, proc, closeCompleted, killCalls, pending,
                   settleOutcome, csResult, result, tmpFile, pictures>>

\* Lines 118-124, 157-161: the inner handler's close ended (o), kill if it
\* did not complete (k), then the new exception enters the outer handler.
NavCloseDone(o, k) ==
    /\ pc = "navClose"
    /\ browser' = browser
    /\ closeCompleted' = (closeCompleted \/ o = "ok")
    /\ killCalls' = IF TeardownKills(o) THEN killCalls + 1 ELSE killCalls
    /\ proc' = ProcAfter(o, k, TeardownKills(o))
    /\ pending' = "NavigationError"
    /\ closeCalls' = closeCalls + 1
    /\ log' = log \o (IF TeardownKills(o) THEN <<"kill">> ELSE <<>>)
                  \o <<"close">>
    /\ pc' = "exClose"
    /\ UNCHANGED <<config, probing, failedStep, settleOutcome, csResult, result, tmpFile,
                   pictures>>

\* Variant of SettleDone: an exception of the wait other than its timeout is
\* not caught at line 133 and reaches the outer handler.
SettleDone_Fatal(o) ==
    /\ pc = "settle"
    /\ settleOutcome' = o
    /\ IF o = "error"
       THEN /\ pending' = "SettleError"
            /\ closeCalls' = closeCalls + 1
            /\ log' = Append(log, "close")
            /\ pc' = "exClose"
       ELSE /\ pc' = "screenshot"
            /\ log' = Append(log, "screenshot")
            /\ UNCHANGED <<pending, closeCalls>>
    /\ UNCHANGED <<config, probing, browser, proc, closeCompleted, killCalls, failedStep,
                   csResult, result, tmpFile, pictures>>

\* Lines 128-139: whatever the settle wait did, the screenshot is taken.
SettleDone(o) ==
    /\ pc = "settle"
    /\ settleOutcome' = o
    /\ pc' = "screenshot"
    /\ log' = Append(log, "screenshot")
    /\ UNCHANGED <<config, probing, session, pending, failedStep, csResult, result, tmpFile,
                   pictures>>

\* Variant of ScreenshotDone: the raise of line 143 is missing, a failed
\* capture is only logged and the cycle goes on with what the file holds.
ScreenshotDone_NoRaise(o, img) ==
    /\ pc = "screenshot"
    /\ image' = img
    /\ failedStep' = IF o = "ok" THEN failedStep ELSE "screenshot"
    /\ pc' = "close"
    /\ closeCalls' = closeCalls + 1
    /\ log' = Append(log, "close")
    /\ UNCHANGED <<config, probing, browser, proc, closeCompleted, killCalls,
                   pending, settleOutcome, csResult, result, tmpFile,
                   classified, displayArgs>>

\* Lines 138-147, 157-161.
ScreenshotDone(o, img) ==
    /\ pc = "screenshot"
    /\ browser' = browser
    /\ IF o = "ok"
       THEN /\ image' = img
            /\ pc' = "close"
            /\ closeCalls' = closeCalls + 1
            /\ log' = Append(log, "close")
            /\ UNCHANGED <<pending, failedStep, csResult, result, tmpFile>>
       ELSE /\ image' = image
            /\ failedStep' = "screenshot"
            /\ EnterOuterHandler("CaptureError")
    /\ UNCHANGED <<config, probing, proc, closeCompleted, killCalls, settleOutcome, classified,
                   displayArgs>>

\* The capture ends, with some image in the file when it succeeded.
ScreenshotEnds ==
    /\ pc = "screenshot"
    /\ \E o \in {"ok", "error"}, img \in Images : ScreenshotDone(o, img)

\* Lines 146-156 and 206-251: the success-path close ended; create_screenshot
\* returns and _refresh_internal runs to its end without suspending.
CloseDone(o, k) ==
    /\ pc = "close"
    /\ closeCompleted' = (closeCompleted \/ o = "ok")
    /\ killCalls' = IF CloseKills(o) THEN killCalls + 1 ELSE killCalls
    /\ proc' = ProcAfter(o, k, CloseKills(o))
    /\ csResult' = "returned"
    /\ classified' = [i \in DOMAIN image |-> remove_aliasing_artefacts(image[i])]
    /\ displayArgs' = Append(displayArgs,
                             <<split_black(Oriented(classified')),
                               split_red(Oriented(classified'))>>)
    /\ log' = log \o (IF CloseKills(o) THEN <<"kill">> ELSE <<>>) \o TailEvents
    /\ tmpFile' = FALSE
    /\ result' = "ok"
    /\ pc' = "done"
    /\ UNCHANGED <<config, probing, browser, closeCalls, pending, failedStep, settleOutcome,
                   image>>

\* Variant of ExCloseDone: an exception of browser.process.kill() is not
\* swallowed (no bare except at lines 165-166) and replaces the step's error.
ExCloseDone_KillRaises(o, k) ==
    /\ pc = "exClose"
    /\ closeCompleted' = (closeCompleted \/ o = "ok")
    /\ killCalls' = IF TeardownKills(o) THEN killCalls + 1 ELSE killCalls
    /\ proc' = ProcAfter(o, k, TeardownKills(o))
    /\ csResult' = IF TeardownKills(o) /\ k = "error" THEN "TeardownError"
                   ELSE pending
    /\ result' = csResult'
    /\ log' = log \o (IF TeardownKills(o) THEN <<"kill">> ELSE <<>>)
                  \o <<"unlink">>
    /\ tmpFile' = FALSE
    /\ pc' = "done"
    /\ UNCHANGED <<config, probing, browser, closeCalls, pending, failedStep, settleOutcome,
                   pictures>>

\* Lines 161-167: the outer handler's close ended; kill if it did not
\* complete; re-raise the exception that entered the handler.
ExCloseDone(o, k) ==
    /\ pc = "exClose"
    /\ closeCompleted' = (closeCompleted \/ o = "ok")
    /\ killCalls' = IF TeardownKills(o) THEN killCalls + 1 ELSE killCalls
    /\ proc' = ProcAfter(o, k, TeardownKills(o))
    /\ csResult' = pending
    /\ result' = pending
    /\ log' = log \o (IF TeardownKills(o) THEN <<"kill">> ELSE <<>>)
                  \o <<"unlink">>
    /\ tmpFile' = FALSE
    /\ pc' = "done"
    /\ UNCHANGED <<config, probing, browser, closeCalls, pending, failedStep, settleOutcome,
                   pictures>>

\* Variant of Deadline: the temporary file is not bound to a with-block and is
\* removed only at the end of the cycle, which a cancelled cycle never reaches.
Deadline_KeepsFile(p) ==
    /\ pc \in AwaitPoints
    /\ p \in (IF pc = "launch" THEN {"none", "running"}
              ELSE IF pc \in CloseAwaits THEN {proc, "exited"}
              ELSE {proc})
    /\ proc' = p
    /\ csResult' = "CancelledError"
    /\ result' = "TimeoutError"
    /\ pc' = "done"
    /\ UNCHANGED <<config, probing, browser, closeCalls, closeCompleted,
                   killCalls, pending, failedStep, settleOutcome, log,
                   tmpFile, pictures>>

\* Lines 188-195: the overall deadline expires while the task is suspended.
\* CancelledError is raised at the await; no handler of create_screenshot
\* catches it, the with-block deletes the file, refresh raises TimeoutError.
\* An operation cancelled in flight may or may not have taken effect (p).
Deadline(p) ==
    /\ pc \in AwaitPoints
    /\ p \in (IF pc = "launch" THEN {"none", "running"}
              ELSE IF pc \in CloseAwaits THEN {proc, "exited"}
              ELSE {proc})
    /\ proc' = p
    /\ csResult' = "CancelledError"
    /\ result' = "TimeoutError"
    /\ log' = Append(log, "unlink")
    /\ tmpFile' = FALSE
    /\ pc' = "done"
    /\ UNCHANGED <<config, probing, browser, closeCalls, closeCompleted, killCalls, pending,
                   failedStep, settleOutcome, pictures>>

Next ==
    \/ Main
    \/ Start
    \/ \E r \in Responses : ProbeDone(r)
    \/ \E o \in {"ok", "error"} : LaunchDone(o)
    \/ \E o \in {"ok", "error"} : NewPageDone(o)
    \/ \E o \in {"ok", "error"} : SetViewportDone(o)
    \/ \E o \in {"ok", "timeout", "error"} : GotoDone(o)
    \/ \E o \in CloseOutcome, k \in KillOutcome : NavCloseDone(o, k)
    \/ \E o \in {"ok", "timeout", "error"} : SettleDone(o)
    \/ ScreenshotEnds
    \/ \E o \in CloseOutcome, k \in KillOutcome : CloseDone(o, k)
    \/ \E o \in CloseOutcome, k \in KillOutcome : ExCloseDone(o, k)
    \/ \E p \in {"none", "running", "exited"} : Deadline(p)

Spec == Init /\ [][Next]_vars

SpecAnyOrientation == InitAnyOrientation /\ [][Next]_vars

(***************************************************************************)
(* Properties.                                                             *)
(***************************************************************************)
Terminated == closeCompleted \/ killCalls > 0
Called(e) == \E i \in 1..Len(log) : log[i] = e
Ended == csResult \notin {"none", "CancelledError"}

\* The error create_screenshot raises when step s is the one that failed.
ErrorOf(s) ==
    CASE s = "probe" -> "ServerUnavailable"
      [] s = "launch" -> "LaunchError"
      [] s \in {"newPage", "setViewport"} -> "PageError"
      [] s = "goto" -> "NavigationError"
      [] s = "screenshot" -> "CaptureError"
      [] OTHER -> "returned"

\* C1: whenever create_screenshot returns or raises (by any path other than
\* cancellation) after the browser launch succeeded, a browser.close() has
\* completed or browser.process.kill() has been invoked.
C1_TerminatedOnEveryPath ==
    (pc = "done" /\ browser /\ Ended) => Terminated

\* C2: when the overall deadline expires while a browser is running, the
\* browser has been closed or killed by the time refresh() raises the timeout
\* error, and no browser process is left running.
C2_TeardownOnDeadline ==
    (pc = "done" /\ result = "TimeoutError" /\ browser)
        => (Terminated /\ proc # "running")

\* C3: when the availability probe returns false, create_screenshot fails
\* with the server-unavailable error and no browser launch is ever started.
C3_NoLaunchWhenUnavailable ==
    failedStep = "probe"
        => /\ pc = "done"
           /\ csResult = "ServerUnavailable"
           /\ ~Called("launch")
           /\ ~browser
           /\ proc = "none"

C3_Witness == failedStep = "probe" /\ pc = "done" /\ Called("probe")

\* C4: when navigation times out or raises, the cycle does not succeed, no
\* settle wait or capture is attempted, and when the navigation error reaches
\* the caller of create_screenshot the cascading teardown has run: a graceful
\* close was requested and it completed or the process was killed.
C4_NavigationFailure ==
    failedStep = "goto"
        => /\ ~Called("settle")
           /\ ~Called("screenshot")
           /\ result # "ok"
           /\ csResult # "returned"
           /\ Ended => /\ csResult = "NavigationError"
                       /\ closeCalls >= 1
                       /\ Terminated

C4_Witness ==
    failedStep = "goto" /\ csResult = "NavigationError" /\ killCalls > 0

\* C5: a settle wait that timed out or raised never fails the cycle: the
\* capture is attempted next, and how create_screenshot ends is decided by
\* the capture alone.
C5_SettleIsBestEffort ==
    settleOutcome \in {"timeout", "error"}
        => /\ Called("screenshot")
           /\ Ended => /\ csResult \in {"returned", "CaptureError"}
                       /\ csResult = "CaptureError" <=> failedStep = "screenshot"

C5_Witness ==
    settleOutcome \in {"timeout", "error"} /\ csResult = "returned"

\* C6: whatever the teardown does (close timing out or raising, kill
\* raising), create_screenshot returns normally iff no fatal step failed, and
\* otherwise raises the error of the step that failed.
C6_TeardownNeverEscalates ==
    Ended => /\ csResult = "returned" <=> failedStep = "none"
             /\ csResult = ErrorOf(failedStep)

\* A teardown in which close did not complete and kill did not stop the process.
C6_Witness ==
    /\ csResult = "CaptureError"
    /\ killCalls > 0
    /\ ~closeCompleted
    /\ proc = "running"

\* The label the colour classifier is specified to give (r, g, b).
SpecLabel(p) ==
    IF p[1] <= 230 /\ p[2] <= 135 /\ p[3] <= 135 THEN "BLACK"
    ELSE IF p[1] >= 230 /\ p[2] <= 135 /\ p[3] <= 135 THEN "RED"
    ELSE "WHITE"

\* C7: every pixel is labelled BLACK if r <= 230, g <= 135 and b <= 135,
\* otherwise RED if r >= 230, g <= 135 and b <= 135, otherwise WHITE.
C7_ClassifierThresholds ==
    \A i \in DOMAIN classified : Label(classified[i]) = SpecLabel(image[i])

\* C8: a pixel passing both the BLACK and the RED test is BLACK:
\* (230,135,135) is classified BLACK and (231,135,135) is classified RED.
C8_BlackWinsTie ==
    \A i \in DOMAIN classified :
        /\ image[i] = <<230, 135, 135>> => Label(classified[i]) = "BLACK"
        /\ image[i] = <<231, 135, 135>> => Label(classified[i]) = "RED"

\* C9: in the plane pair handed to epd.display a cell of the black plane is
\* marked iff the classifier labelled the pixel BLACK, and a cell of the red
\* plane iff it labelled the pixel RED; WHITE marks neither plane.
C9_PlanesFollowLabels ==
    (~is_portrait /\ ~is_topdown)
        => \A n \in DOMAIN displayArgs : \A i \in DOMAIN classified :
               /\ displayArgs[n][1][i] = 0 <=> Label(classified[i]) = "BLACK"
               /\ displayArgs[n][2][i] = 0 <=> Label(classified[i]) = "RED"

IsDriverCall(e) == e \in {"epd.init", "epd.display", "epd.sleep"}
Pos(e) == CHOOSE i \in 1..Len(log) : log[i] = e

\* C10: a refresh() that succeeds calls the display driver exactly in the
\* order init, display, sleep, once each, and display comes after capture,
\* classification, orientation and plane splitting.
C10_DriverOrder ==
    result = "ok"
        => /\ SelectSeq(log, IsDriverCall)
                = <<"epd.init", "epd.display", "epd.sleep">>
           /\ Len(displayArgs) = 1
           /\ \A e \in {"screenshot", "remove_aliasing_artefacts", "invert",
                        "split"} :
                  Called(e) /\ Pos(e) < Pos("epd.display")

C10_Witness == result = "ok" /\ Called("epd.display") /\ Called("epd.sleep")

\* C11: in a cycle that fails (probe, launch, page, navigation or capture
\* failure, or the overall deadline) epd.display is never called.
C11_NoDisplayOnFailure ==
    (failedStep # "none" \/ result \notin {"none", "ok"})
        => displayArgs = <<>> /\ ~Called("epd.display")

C11_Witness ==
    pc = "done" /\ failedStep = "screenshot" /\ result = "CaptureError"

\* C12: once refresh() has returned or raised, on whatever path, the
\* temporary screenshot file does not exist any more.
C12_TempFileRemoved ==
    pc = "done" => ~tmpFile /\ Called("unlink")

C12_Witness ==
    pc = "done" /\ result = "TimeoutError" /\ Called("screenshot")

\* C13: run with --reset, main() runs no refresh and asks the display driver
\* to clear the panel; run without --reset, it runs a refresh.
C13_ResetClearsPanel ==
    /\ (pc = "exit" /\ args_reset)
           => Called("reset_screen") /\ ~Called("epd.init")
    /\ (pc \in {"exit", "done"} /\ ~args_reset) => Called("epd.init")

\* C14: check_server_availability returns True iff the GET ended with status
\* 200; for a network error, a timeout or another status it returns False,
\* and it never raises.
C14_ProbeIsBoolean ==
    probeResponse # "none"
        => /\ available \in {"True", "False"}
           /\ available = "True" <=> probeResponse = "200"

C14_Witness == probeResponse = "timeout" /\ available = "False"

\* C15: the classifier is idempotent: a pixel that is already pure black,
\* pure red or pure white is returned unchanged, and classifying a classified
\* pixel again gives the same pixel.
C15_ClassifierIdempotent ==
    \A i \in DOMAIN classified :
        /\ image[i] \in {<<0, 0, 0>>, <<255, 0, 0>>, <<255, 255, 255>>}
               => classified[i] = image[i]
        /\ remove_aliasing_artefacts(classified[i]) = classified[i]

C15_Witness ==
    /\ classified # <<>>
    /\ classified[1] = <<255, 0, 0>>
    /\ image[1] # <<255, 0, 0>>

\* C16: whatever the image and the portrait and topdown flags, no position
\* is marked in both the black and the red plane given to epd.display.
C16_PlanesExclusive ==
    \A n \in DOMAIN displayArgs : \A i \in DOMAIN displayArgs[n][1] :
        ~(displayArgs[n][1][i] = 0 /\ displayArgs[n][2][i] = 0)

C16_Witness ==
    /\ is_portrait
    /\ is_topdown
    /\ displayArgs # <<>>
    /\ \E i \in DOMAIN displayArgs[1][1] : displayArgs[1][1][i] = 0

\* C17: the colour inversion is applied before the classification, so the
\* pixels the plane splitter is given carry the classifier's own labels.
C17_InvertBeforeClassify ==
    result = "ok"
        => /\ Pos("invert") < Pos("remove_aliasing_artefacts")
           /\ \A i \in DOMAIN classified :
                  Label(Oriented(classified)[i]) = Label(classified[i])

\* The steps of a cycle in the order of the state machine.
StepOrder ==
    <<"probe", "launch", "newPage", "setViewport", "goto", "settle",
      "screenshot", "close">>
IsStep(e) == \E r \in DOMAIN StepOrder : StepOrder[r] = e
Rank(e) == CHOOSE r \in DOMAIN StepOrder : StepOrder[r] = e
IsPipelineStep(e) == IsStep(e) /\ e # "close"
Steps == SelectSeq(log, IsStep)
PipelineSteps == SelectSeq(log, IsPipelineStep)

\* C18: the steps start in the order probe, launch, navigate, settle,
\* capture, close, none skipped and none more than once, and after a fatal
\* step failed no further step but the teardown starts.
C18_StrictStepOrder ==
    /\ \A i, j \in DOMAIN Steps : i < j => Rank(Steps[i]) < Rank(Steps[j])
    /\ \A i \in DOMAIN PipelineSteps : PipelineSteps[i] = StepOrder[i]
    /\ failedStep # "none"
           => PipelineSteps[Len(PipelineSteps)] = failedStep

\* C19: in one call of create_screenshot browser.close() is requested at
\* most once, whichever step failed.
C19_TeardownAtMostOnce == closeCalls <= 1

\* C20: whenever a cycle has called epd.init(), epd.sleep() has been called
\* by the time refresh() returns or raises.
C20_SleepAfterInit ==
    (pc = "done" /\ Called("epd.init")) => Called("epd.sleep")

====
